---- MODULE Spec2Model ----
(***************************************************************************)
(* SmartForm Pro: the form controller (SmartFormApp, app.js) and the       *)
(* camera controller (CameraApp, camera.js) as one event-driven state      *)
(* machine.  Every handler runs to its first await atomically; the         *)
(* continuations of getUserMedia and fetch are separate steps.  Texts that *)
(* are only displayed (the camera status line, the still's src, the        *)
(* details of the success modal) are not part of the state; what a handler *)
(* hands to showError, showSuccess, fetch and onImageCaptured, and the     *)
(* error messages it hands to updateStatus, are logged in calls.           *)
(***************************************************************************)
EXTENDS Integers, Sequences, FiniteSets, Bags, TLC

(* ------------------------------ bounds -------------------------------- *)
\* Spec, the camera scenarios: streams the capture device hands out in one
\* run, and submissions awaiting their response at the same time
MaxStreams == 2
CameraInFlight == 1
\* SpecSubmit, the submission scenarios: the same two limits
SubmitStreams == 1
SubmitInFlight == 1
\* SpecOverlap, the overlapping submissions: submissions awaiting their
\* response at the same time (with SubmitStreams streams)
MaxInFlight == 2
\* SpecValidate, the validation scenarios: the longest run of digits typed
\* into the phone field
MaxPhoneDigits == 11

(* --------------------------- sample inputs ---------------------------- *)
Null == 0
\* frames the canvas can encode (toDataURL results), never Null
Images == {1, 2}
\* the form's required fields and their input types
Fields == {"email", "phone"}
FieldType == [email |-> "email", phone |-> "tel"]
Empty == << >>
\* strings are sequences of one-character strings
\* what the user can leave in a field by typing
FieldValues ==
    [email    |-> {Empty, <<"a">>, <<"a", "@", "b", ".", "c">>},
     phone    |-> {Empty, <<"5", "5", "5", "-", "1", "2", "3", "4", "5", "6", "7">>}]
\* what a read of the clock (Date) can return
Times == {0, 1}

\* a run of k digits
DigitRun(k) == [i \in 1..k |-> "5"]
\* s with the character c put in after its first p characters
InsertAt(s, p, c) == SubSeq(s, 1, p) \o <<c>> \o SubSeq(s, p + 1, Len(s))
\* characters typed among the digits of a phone number: the permitted
\* punctuation, a blank, and two characters the pattern refuses
PhoneExtras == {" ", "-", "+", "(", ")", "a", "."}
\* what the user can leave in a field in the validation scenarios.  An input of
\* type email hands out its value without leading and trailing blanks, one of
\* type tel as typed
ValidationValues ==
    [email |-> {Empty, <<"a">>, <<"a", "@", "b", ".", "c">>, <<"a", "@", "b">>,
                <<"a", " ", "@", "b", ".", "c">>},
     phone |-> UNION {{DigitRun(k)} \cup
                      {InsertAt(DigitRun(k), p, c) : p \in {0, k}, c \in PhoneExtras} :
                      k \in 0..MaxPhoneDigits}]

(* ------------------------- string primitives -------------------------- *)
Whitespace == {" "}
Digit == {"0", "1", "2", "3", "4", "5", "6", "7", "8", "9"}
PhoneChar == Digit \cup Whitespace \cup {"-", "+", "(", ")"}

RECURSIVE TrimStart(_)
TrimStart(s) ==
    IF s # Empty /\ Head(s) \in Whitespace THEN TrimStart(Tail(s)) ELSE s

RECURSIVE TrimEnd(_)
TrimEnd(s) ==
    IF s # Empty /\ s[Len(s)] \in Whitespace
    THEN TrimEnd(SubSeq(s, 1, Len(s) - 1))
    ELSE s

\* String.prototype.trim
Trim(s) == TrimEnd(TrimStart(s))

\* every character of s[a..b] is neither whitespace nor "@", and a <= b
Plain(s, a, b) ==
    /\ a <= b
    /\ \A k \in a..b : s[k] \notin Whitespace \cup {"@"}

\* /^[^\s@]+@[^\s@]+\.[^\s@]+$/.test(s)
EmailRegexTest(s) ==
    \E i \in 1..Len(s) : \E j \in 1..Len(s) :
        /\ i < j
        /\ s[i] = "@"
        /\ s[j] = "."
        /\ Plain(s, 1, i - 1)
        /\ Plain(s, i + 1, j - 1)
        /\ Plain(s, j + 1, Len(s))

\* /^[\d\s\-\+\(\)]+$/.test(s)
PhoneRegexTest(s) ==
    /\ s # Empty
    /\ \A k \in 1..Len(s) : s[k] \in PhoneChar

\* s.replace(/\D/g, '')
RECURSIVE StripNonDigits(_)
StripNonDigits(s) ==
    IF s = Empty THEN Empty
    ELSE IF Head(s) \in Digit
         THEN <<Head(s)>> \o StripNonDigits(Tail(s))
         ELSE StripNonDigits(Tail(s))

MinPhoneDigits == 10

(* ------------------------------- state -------------------------------- *)
VARIABLES
    \* SmartFormApp and its DOM
    value,              \* field.value of every required field
    error,              \* field.classList.contains('error')
    errorText,          \* textContent of the field's error element
    submitDisabled,     \* submitBtn.disabled
    capturedImageData,  \* this.capturedImageData
    loadingHidden,      \* loadingOverlay has class hidden
    successModalHidden, \* successModal has class hidden
    inflight,           \* bag of the request data of the submissions awaiting a response
    \* CameraApp and its DOM
    stream,             \* this.stream
    isCaptured,         \* this.isCaptured
    videoSrcObject,     \* video.srcObject
    metadataPending,    \* video has a source whose loadedmetadata is still to fire
    videoHidden,        \* video has class hidden
    capturedImageHidden,\* capturedImage has class hidden
    controls,           \* which of the three buttons is not hidden
    startDisabled,      \* startCameraBtn.disabled
    \* the capture device
    pending,            \* getUserMedia calls not yet settled
    live,               \* streams acquired and not stopped
    stops,              \* per stream, how many times its tracks were stopped
    \* calls made by the handler that ran last
    calls

formVars == <<value, error, errorText, submitDisabled, capturedImageData,
              loadingHidden, successModalHidden, inflight>>
cameraVars == <<stream, isCaptured, videoSrcObject, metadataPending, videoHidden,
                capturedImageHidden, controls, startDisabled>>
deviceVars == <<pending, live, stops>>
vars == <<formVars, cameraVars, deviceVars, calls>>


(* ------------------------ SmartFormApp: helpers ----------------------- *)
RequiredMessage == "This field is required"
EmailMessage == "Please enter a valid email address"
PhoneMessage == "Please enter a valid phone number"
BlockedMessage == "Please complete all required fields and capture a photo"
SubmissionFailedMessage == "Submission failed"
ServerMessage == "server says no"

\* validateField as it would be with the pattern test alone in its tel branch
ValidateFieldWithoutDigitCount(type, v) ==
    LET r0 == [isValid |-> TRUE, errorMessage |-> ""]
        r1 == IF Trim(v) = Empty
              THEN [isValid |-> FALSE, errorMessage |-> RequiredMessage]
              ELSE r0
        r2 == IF type = "email" /\ v # Empty /\ ~EmailRegexTest(v)
              THEN [isValid |-> FALSE, errorMessage |-> EmailMessage]
              ELSE r1
        r3 == IF type = "tel" /\ v # Empty /\ ~PhoneRegexTest(v)
              THEN [isValid |-> FALSE, errorMessage |-> PhoneMessage]
              ELSE r2
    IN  r3

\* validateField on a required field of that input type holding v: the verdict and the
\* message, each check overwriting the result of the one before it
ValidateField(type, v) ==
    LET r0 == [isValid |-> TRUE, errorMessage |-> ""]
        r1 == IF Trim(v) = Empty
              THEN [isValid |-> FALSE, errorMessage |-> RequiredMessage]
              ELSE r0
        r2 == IF type = "email" /\ v # Empty /\ ~EmailRegexTest(v)
              THEN [isValid |-> FALSE, errorMessage |-> EmailMessage]
              ELSE r1
        r3 == IF /\ type = "tel"
                 /\ v # Empty
                 /\ (~PhoneRegexTest(v) \/ Len(StripNonDigits(v)) < MinPhoneDigits)
              THEN [isValid |-> FALSE, errorMessage |-> PhoneMessage]
              ELSE r2
    IN  r3

\* checkFormValidity as it would be without its look at capturedImageData
CheckFormValidityIgnoringImage(val, err, img) ==
    \A f \in Fields : Trim(val[f]) # Empty /\ ~err[f]

\* checkFormValidity's verdict for field values val, error marks err and image img
CheckFormValidity(val, err, img) ==
    /\ \A f \in Fields : Trim(val[f]) # Empty /\ ~err[f]
    /\ img # Null

\* new Date().toISOString() at clock t
ToISOString(t) == <<"ISO", t>>

\* getFormData as it would be without its last assignment: no image in the data
GetFormDataWithoutImage(val, t, img) ==
    [fields |-> val, timestamp |-> <<"ISO", t>>, imageData |-> Null]

\* getFormData: the field values, a fresh timestamp and the image held now
GetFormData(val, t, img) ==
    [fields |-> val, timestamp |-> ToISOString(t), imageData |-> img]

\* what the endpoint answers when the response is a 2xx whose body parses
Outcomes == {"success", "rejected_message", "rejected", "http_error",
             "network_error", "parse_error"}
ServerResponse(outcome, data) ==
    CASE outcome = "success" ->
            [success |-> TRUE,
             data |-> <<[submissionId |-> <<"ROW_", 7>>,
                         timestamp |-> data.timestamp,
                         message |-> "saved"]>>,
             message |-> ""]
      [] outcome = "rejected_message" ->
            [success |-> FALSE, data |-> << >>, message |-> ServerMessage]
      [] OTHER ->
            [success |-> FALSE, data |-> << >>, message |-> ""]

\* submitData: the parsed body of a 2xx response, and on any throw inside the
\* try (fetch rejects, status not ok, body does not parse) the simulated success
SubmitData(data, outcome, t) ==
    IF outcome \in {"http_error", "network_error", "parse_error"}
    THEN [success |-> TRUE,
          data |-> <<[submissionId |-> <<"SUB_", t>>,
                      timestamp |-> data.timestamp,
                      message |-> "Data submitted successfully"]>>,
          message |-> ""]
    ELSE ServerResponse(outcome, data)

NoCalls ==
    [onImageCaptured |-> << >>, fetch |-> << >>, showError |-> << >>,
     showSuccess |-> << >>, statusError |-> << >>]

(* ------------------------ CameraApp: helpers -------------------------- *)
NotSupportedMessage == "Camera not supported in this browser"
CaptureFailedMessage == "Failed to capture photo"
\* error.name of a rejected getUserMedia call: the three names startCamera
\* tells apart, and one it does not
ErrorNames == {"NotAllowedError", "NotFoundError", "NotReadableError",
               "OverconstrainedError"}
\* the message startCamera's catch block reports for error.name
StartErrorMessage(name) ==
    CASE name = "NotAllowedError" ->
            "Camera access denied. Please allow camera access and try again."
      [] name = "NotFoundError" -> "No camera found on this device."
      [] name = "NotReadableError" ->
            "Camera is already in use by another application."
      [] OTHER -> "Failed to access camera"

StreamIds == 1..(MaxStreams + SubmitStreams)
\* streams the device has handed out so far
Issued == live \cup {s \in StreamIds : stops[s] > 0}
\* the stream a resolving getUserMedia call hands out: one never handed out before
FreshStream == CHOOSE s \in StreamIds \ Issued : \A r \in StreamIds \ Issued : s <= r

\* resetCamera as it would be if showing the start controls also enabled the
\* start button
ResetCameraEnablesStart ==
    /\ IF stream # Null
       THEN /\ live' = live \ {stream}
            /\ stops' = [stops EXCEPT ![stream] = @ + 1]
       ELSE UNCHANGED <<live, stops>>
    /\ stream' = Null
    /\ videoHidden' = FALSE
    /\ capturedImageHidden' = TRUE
    /\ isCaptured' = FALSE
    /\ controls' = "start"
    /\ videoSrcObject' = Null
    /\ metadataPending' = FALSE
    /\ startDisabled' = FALSE
    /\ UNCHANGED pending

\* resetCamera: stop the held stream's tracks, back to the start controls
ResetCamera ==
    /\ IF stream # Null
       THEN /\ live' = live \ {stream}
            /\ stops' = [stops EXCEPT ![stream] = @ + 1]
       ELSE UNCHANGED <<live, stops>>
    /\ stream' = Null
    /\ videoHidden' = FALSE
    /\ capturedImageHidden' = TRUE
    /\ isCaptured' = FALSE
    /\ controls' = "start"
    /\ videoSrcObject' = Null
    /\ metadataPending' = FALSE
    /\ UNCHANGED <<startDisabled, pending>>

(* -------------------------------- Init -------------------------------- *)
\* both constructors have run; checkCameraSupport found the capture API or not
Init ==
    /\ value = [f \in Fields |-> Empty]
    /\ error = [f \in Fields |-> FALSE]
    /\ errorText = [f \in Fields |-> ""]
    /\ submitDisabled = TRUE
    /\ capturedImageData = Null
    /\ loadingHidden = TRUE
    /\ successModalHidden = TRUE
    /\ inflight = EmptyBag
    /\ stream = Null
    /\ isCaptured = FALSE
    /\ videoSrcObject = Null
    /\ metadataPending = FALSE
    /\ videoHidden = FALSE
    /\ capturedImageHidden = TRUE
    /\ controls = "start"
    /\ \E supported \in BOOLEAN :
          /\ startDisabled = ~supported
          /\ calls = IF supported
                     THEN NoCalls
                     ELSE [NoCalls EXCEPT !.statusError = <<NotSupportedMessage>>]
    /\ pending = 0
    /\ live = {}
    /\ stops = [s \in StreamIds |-> 0]

(* ----------------------- SmartFormApp: handlers ----------------------- *)
\* onImageCaptured as it would be without its call of checkFormValidity
OnImageCapturedWithoutRecheck(img) ==
    /\ capturedImageData' = img
    /\ UNCHANGED submitDisabled

\* onImageCaptured(img): store the image, then checkFormValidity
OnImageCaptured(img) ==
    /\ capturedImageData' = img
    /\ submitDisabled' = ~CheckFormValidity(value, error, img)

\* the field's blur listener: validateField only
Blur(f) ==
    /\ error' = [error EXCEPT ![f] = ~ValidateField(FieldType[f], value[f]).isValid]
    /\ errorText' = [errorText EXCEPT ![f] = ValidateField(FieldType[f], value[f]).errorMessage]
    /\ calls' = NoCalls
    /\ UNCHANGED <<value, submitDisabled, capturedImageData, loadingHidden,
                   successModalHidden, inflight>>
    /\ UNCHANGED <<cameraVars, deviceVars>>

\* the field's input listener, the user having changed the value to v:
\* validateField if the field is marked, then checkFormValidity
Input(f, v) ==
    /\ v # value[f]
    /\ value' = [value EXCEPT ![f] = v]
    /\ IF error[f]
       THEN /\ error' = [error EXCEPT ![f] = ~ValidateField(FieldType[f], v).isValid]
            /\ errorText' = [errorText EXCEPT ![f] = ValidateField(FieldType[f], v).errorMessage]
       ELSE UNCHANGED <<error, errorText>>
    /\ submitDisabled' = ~CheckFormValidity(value', error', capturedImageData)
    /\ calls' = NoCalls
    /\ UNCHANGED <<capturedImageData, loadingHidden, successModalHidden, inflight>>
    /\ UNCHANGED <<cameraVars, deviceVars>>

\* handleFormSubmit, the gate having refused: showError and return
SubmitBlocked ==
    /\ ~submitDisabled
    /\ ~CheckFormValidity(value, error, capturedImageData)
    /\ submitDisabled' = TRUE
    /\ calls' = [NoCalls EXCEPT !.showError = <<BlockedMessage>>]
    /\ UNCHANGED <<value, error, errorText, capturedImageData, loadingHidden,
                   successModalHidden, inflight>>
    /\ UNCHANGED <<cameraVars, deviceVars>>

\* handleFormSubmit up to its await, the gate having passed and the clock
\* reading t: loading on, getFormData, fetch issued
SubmitStart(t, maxInFlight) ==
    /\ ~submitDisabled
    /\ BagCardinality(inflight) < maxInFlight
    /\ CheckFormValidity(value, error, capturedImageData)
    /\ submitDisabled' = FALSE
    /\ loadingHidden' = FALSE
    /\ LET data == GetFormData(value, t, capturedImageData)
       IN  /\ inflight' = inflight (+) SetToBag({data})
           /\ calls' = [NoCalls EXCEPT !.fetch = <<data>>]
    /\ UNCHANGED <<value, error, errorText, capturedImageData, successModalHidden>>
    /\ UNCHANGED <<cameraVars, deviceVars>>

\* the rest of handleFormSubmit once the request of data has its outcome, the
\* clock reading t
SubmitSettle(data, outcome, t) ==
    /\ BagIn(data, inflight)
    /\ data.timestamp[2] <= t
    /\ LET response == SubmitData(data, outcome, t)
       IN  IF response.success
           THEN /\ successModalHidden' = FALSE
                /\ calls' = [NoCalls EXCEPT !.showSuccess = response.data]
           ELSE /\ calls' = [NoCalls EXCEPT !.showError =
                                <<IF response.message # ""
                                  THEN response.message
                                  ELSE SubmissionFailedMessage>>]
                /\ UNCHANGED successModalHidden
    /\ loadingHidden' = TRUE
    /\ inflight' = inflight (-) SetToBag({data})
    /\ UNCHANGED <<value, error, errorText, submitDisabled, capturedImageData>>
    /\ UNCHANGED <<cameraVars, deviceVars>>

\* closeModal
CloseModal ==
    /\ ~successModalHidden
    /\ successModalHidden' = TRUE
    /\ calls' = NoCalls
    /\ UNCHANGED <<value, error, errorText, submitDisabled, capturedImageData,
                   loadingHidden, inflight>>
    /\ UNCHANGED <<cameraVars, deviceVars>>

\* handleFormReset as it would be without its loop over the marked fields
FormResetKeepsMarks ==
    /\ value' = [f \in Fields |-> Empty]
    /\ capturedImageData' = Null
    /\ UNCHANGED error
    /\ errorText' = [f \in Fields |-> ""]
    /\ submitDisabled' = TRUE
    /\ ResetCamera
    /\ calls' = NoCalls

\* handleFormReset: form.reset(), image dropped, marks cleared, submit disabled,
\* camera reset
FormResetEffect ==
    /\ value' = [f \in Fields |-> Empty]
    /\ capturedImageData' = Null
    /\ error' = [f \in Fields |-> FALSE]
    /\ errorText' = [f \in Fields |-> ""]
    /\ submitDisabled' = TRUE
    /\ ResetCamera
    /\ calls' = NoCalls

HandleFormReset ==
    /\ FormResetEffect
    /\ UNCHANGED <<loadingHidden, successModalHidden, inflight>>

\* handleNewSubmission: handleFormReset, then closeModal
HandleNewSubmission ==
    /\ ~successModalHidden
    /\ FormResetEffect
    /\ successModalHidden' = TRUE
    /\ UNCHANGED <<loadingHidden, inflight>>

(* ------------------------- CameraApp: handlers ------------------------ *)
\* startCamera up to its await: status, getUserMedia called
StartCamera(maxStreams) ==
    /\ controls = "start"
    /\ ~startDisabled
    /\ pending + Cardinality(Issued) < maxStreams
    /\ pending' = pending + 1
    /\ calls' = NoCalls
    /\ UNCHANGED <<live, stops>>
    /\ UNCHANGED cameraVars
    /\ UNCHANGED formVars

\* startCamera after its await, getUserMedia having resolved with a new stream
StartCameraResolved ==
    /\ pending > 0
    /\ pending' = pending - 1
    /\ live' = live \cup {FreshStream}
    /\ stream' = FreshStream
    /\ videoSrcObject' = FreshStream
    /\ metadataPending' = TRUE
    /\ calls' = NoCalls
    /\ UNCHANGED <<isCaptured, videoHidden, capturedImageHidden, controls,
                   startDisabled>>
    /\ UNCHANGED stops
    /\ UNCHANGED formVars

\* startCamera's catch block as it would be if it asked for the camera again
StartCameraRejectedRetries(name) ==
    /\ pending > 0
    /\ UNCHANGED pending
    /\ calls' = [NoCalls EXCEPT !.statusError = <<StartErrorMessage(name)>>]
    /\ UNCHANGED cameraVars
    /\ UNCHANGED <<live, stops>>
    /\ UNCHANGED formVars

\* startCamera's catch block, getUserMedia having rejected with error.name
StartCameraRejected(name) ==
    /\ pending > 0
    /\ pending' = pending - 1
    /\ calls' = [NoCalls EXCEPT !.statusError = <<StartErrorMessage(name)>>]
    /\ UNCHANGED cameraVars
    /\ UNCHANGED <<live, stops>>
    /\ UNCHANGED formVars

\* video.onloadedmetadata: status, showCaptureControls
LoadedMetadata ==
    /\ metadataPending
    /\ metadataPending' = FALSE
    /\ controls' = "capture"
    /\ calls' = NoCalls
    /\ UNCHANGED <<stream, isCaptured, videoSrcObject, videoHidden,
                   capturedImageHidden, startDisabled>>
    /\ UNCHANGED deviceVars
    /\ UNCHANGED formVars

\* capturePhoto, the canvas having encoded the frame as img
CapturePhoto(img) ==
    /\ controls = "capture"
    /\ capturedImageHidden' = FALSE
    /\ videoHidden' = TRUE
    /\ isCaptured' = TRUE
    /\ controls' = "retake"
    /\ OnImageCaptured(img)
    /\ calls' = [NoCalls EXCEPT !.onImageCaptured = <<img>>]
    /\ UNCHANGED <<stream, videoSrcObject, metadataPending, startDisabled>>
    /\ UNCHANGED deviceVars
    /\ UNCHANGED <<value, error, errorText, loadingHidden, successModalHidden, inflight>>

\* capturePhoto's catch block, drawing or encoding the frame having thrown
CapturePhotoFailed ==
    /\ controls = "capture"
    /\ calls' = [NoCalls EXCEPT !.statusError = <<CaptureFailedMessage>>]
    /\ UNCHANGED cameraVars
    /\ UNCHANGED deviceVars
    /\ UNCHANGED formVars

\* retakePhoto as it would be if it stopped the stream and asked for a new one
RetakePhotoReacquires ==
    /\ controls = "retake"
    /\ capturedImageHidden' = TRUE
    /\ videoHidden' = FALSE
    /\ isCaptured' = FALSE
    /\ controls' = "capture"
    /\ OnImageCaptured(Null)
    /\ calls' = [NoCalls EXCEPT !.onImageCaptured = <<Null>>]
    /\ IF stream # Null
       THEN /\ live' = live \ {stream}
            /\ stops' = [stops EXCEPT ![stream] = @ + 1]
       ELSE UNCHANGED <<live, stops>>
    /\ stream' = Null
    /\ pending' = pending + 1
    /\ UNCHANGED <<videoSrcObject, metadataPending, startDisabled>>
    /\ UNCHANGED <<value, error, errorText, loadingHidden, successModalHidden, inflight>>

\* retakePhoto as it would be without its notification of the main app
RetakePhotoWithoutNotice ==
    /\ controls = "retake"
    /\ capturedImageHidden' = TRUE
    /\ videoHidden' = FALSE
    /\ isCaptured' = FALSE
    /\ controls' = "capture"
    /\ calls' = NoCalls
    /\ UNCHANGED <<stream, videoSrcObject, metadataPending, startDisabled>>
    /\ UNCHANGED deviceVars
    /\ UNCHANGED formVars

\* retakePhoto
RetakePhoto ==
    /\ controls = "retake"
    /\ capturedImageHidden' = TRUE
    /\ videoHidden' = FALSE
    /\ isCaptured' = FALSE
    /\ controls' = "capture"
    /\ OnImageCaptured(Null)
    /\ calls' = [NoCalls EXCEPT !.onImageCaptured = <<Null>>]
    /\ UNCHANGED <<stream, videoSrcObject, metadataPending, startDisabled>>
    /\ UNCHANGED deviceVars
    /\ UNCHANGED <<value, error, errorText, loadingHidden, successModalHidden, inflight>>

\* the beforeunload listener: destroy, which is resetCamera
Destroy ==
    /\ ResetCamera
    /\ calls' = NoCalls
    /\ UNCHANGED formVars

(* --------------------------- specification ---------------------------- *)
\* every handler and continuation, the environment issuing at most maxStreams
\* successful acquisitions and keeping at most maxInFlight submissions waiting
Step(maxStreams, maxInFlight) ==
    \/ \E f \in Fields : Blur(f)
    \/ \E f \in Fields : \E v \in FieldValues[f] : Input(f, v)
    \/ SubmitBlocked
    \/ \E t \in Times : SubmitStart(t, maxInFlight)
    \/ \E data \in BagToSet(inflight) : \E outcome \in Outcomes : \E t \in Times :
          SubmitSettle(data, outcome, t)
    \/ CloseModal
    \/ HandleFormReset
    \/ HandleNewSubmission
    \/ StartCamera(maxStreams)
    \/ StartCameraResolved
    \/ \E name \in ErrorNames : StartCameraRejected(name)
    \/ LoadedMetadata
    \/ \E img \in Images : CapturePhoto(img)
    \/ CapturePhotoFailed
    \/ RetakePhoto
    \/ Destroy

Next == Step(MaxStreams, CameraInFlight)
Spec == Init /\ [][Next]_vars

NextSubmit == Step(SubmitStreams, SubmitInFlight)
SpecSubmit == Init /\ [][NextSubmit]_vars

NextOverlap == Step(SubmitStreams, MaxInFlight)
SpecOverlap == Init /\ [][NextOverlap]_vars

\* the validation scenarios: the user types into the fields and leaves them
NextValidate ==
    \/ \E f \in Fields : Blur(f)
    \/ \E f \in Fields : \E v \in ValidationValues[f] : Input(f, v)
SpecValidate == Init /\ [][NextValidate]_vars


(* ------------------------- shared vocabulary -------------------------- *)
\* the field's current value passes the validation rules
FieldPasses(f) ==
    /\ Trim(value[f]) # Empty
    /\ FieldType[f] = "email" => EmailRegexTest(value[f])
    /\ FieldType[f] = "tel" =>
          /\ PhoneRegexTest(value[f])
          /\ Len(StripNonDigits(value[f])) >= MinPhoneDigits
\* global validity: all required fields valid and an image artifact present
GlobalValidity ==
    /\ \A f \in Fields : FieldPasses(f)
    /\ capturedImageData # Null
\* a step of handleFormSubmit, whichever way its gate decides
SubmitStep ==
    \/ SubmitBlocked
    \/ \E t \in Times : SubmitStart(t, MaxInFlight + CameraInFlight)
\* a step that runs resetCamera
ResetStep == HandleFormReset \/ HandleNewSubmission \/ Destroy

(* -------------------------------- C1 ---------------------------------- *)
\* C1: in every reachable state the submit button is enabled if and only if
\* every required field's current value passes its validation rules and
\* FormController holds a captured image.
C1_SubmitEnabledIffValid == (~submitDisabled) <=> GlobalValidity

(* -------------------------------- C2 ---------------------------------- *)
\* C2: a submit action issues a network request only if global validity holds
\* at that moment; when it does not hold, the handler reports the blocking
\* error, issues no request and leaves the loading indicator alone.
C2_RequestOnlyIfValid ==
    [][SubmitStep =>
         IF GlobalValidity
         THEN TRUE
         ELSE /\ calls'.fetch = << >>
              /\ calls'.showError = <<BlockedMessage>>
              /\ inflight' = inflight
              /\ loadingHidden' = loadingHidden]_vars

(* -------------------------------- C3 ---------------------------------- *)
FailureOutcomes == Outcomes \ {"success"}
\* the record submitData synthesizes at clock t for the request of data
SynthesizedRecord(data, t) ==
    [submissionId |-> <<"SUB_", t>>,
     timestamp |-> data.timestamp,
     message |-> "Data submitted successfully"]

\* the step took one copy of the request out of the requests in flight (what
\* SubmitSettle does, and no other handler)
Settled(data) ==
    /\ inflight' # inflight
    /\ CopiesIn(data, inflight') < CopiesIn(data, inflight)

\* C3: every failed submission (success: false, non-2xx, network
\* error, parse error) both surfaces an error notification and shows a locally
\* synthesized success record.
C3_FailureShowsErrorAndSynthesizedSuccess ==
    [][\A data \in BagToSet(inflight) : Settled(data) =>
       \A outcome \in FailureOutcomes : \A t \in Times :
          SubmitSettle(data, outcome, t) =>
             /\ calls'.showError # << >>
             /\ calls'.showSuccess = <<SynthesizedRecord(data, t)>>]_vars

(* -------------------------------- C4 ---------------------------------- *)
\* C4: the loading indicator is shown exactly while some started submission
\* is still awaiting its outcome, overlapping submissions included.
C4_LoadingIffInFlight == (~loadingHidden) <=> (BagCardinality(inflight) > 0)

(* -------------------------------- C5 ---------------------------------- *)
\* C5: every submit action that passes the gate issues exactly one request,
\* whose imageData is the image FormController holds at that moment; the
\* request then stays as issued, whatever capture, retake or reset do while
\* it is in flight, until its own outcome removes it.
C5_OneRequestWithHeldImage ==
    [][/\ (SubmitStep /\ CheckFormValidity(value, error, capturedImageData)) =>
             /\ Len(calls'.fetch) = 1
             /\ calls'.fetch[1].imageData = capturedImageData
             /\ capturedImageData \in Images
             /\ inflight' = inflight (+) SetToBag({calls'.fetch[1]})
       /\ ~SubmitStep =>
             /\ calls'.fetch = << >>
             /\ \/ inflight' = inflight
                \/ /\ capturedImageData' = capturedImageData
                   /\ isCaptured' = isCaptured
                   /\ \E data \in BagToSet(inflight) :
                         inflight' = inflight (-) SetToBag({data})]_vars

\* a request is in flight whose image is no longer the one FormController
\* holds, another one having been captured since
C5_Witness ==
    \E data \in BagToSet(inflight) :
       /\ capturedImageData # Null
       /\ data.imageData # capturedImageData


(* -------------------------------- C6 ---------------------------------- *)
\* C6: at most one acquired and not yet stopped camera stream exists at any
\* time.
C6_AtMostOneLiveStream == Cardinality(live) <= 1

(* -------------------------------- C7 ---------------------------------- *)
\* C7: when a reset runs with no acquisition pending, the controller is Idle
\* afterwards and holds no stream, and every stream acquired before it has
\* been released exactly once.
C7_ResetReleasesEveryStream ==
    [][(ResetStep /\ pending = 0) =>
          /\ stream' = Null
          /\ ~isCaptured'
          /\ controls' = "start"
          /\ live' = {}
          /\ \A s \in StreamIds : stops'[s] <= 1]_vars

(* -------------------------------- C8 ---------------------------------- *)
\* the controller holds a stream and shows the live feed
Active == stream # Null /\ ~isCaptured

\* C8: a successful capture in the Active state moves the controller to
\* Captured and notifies FormController exactly once with the artifact:
\* right afterwards FormController stores that artifact and the submit button
\* is enabled exactly if every field is filled and unmarked.
C8_CaptureDeliversArtifact ==
    [][\A img \in Images :
          (Active /\ CapturePhoto(img)) =>
             /\ isCaptured'
             /\ stream' = stream
             /\ controls' = "retake"
             /\ calls'.onImageCaptured = <<img>>
             /\ capturedImageData' = img
             /\ submitDisabled' =
                   ~(\A f \in Fields : Trim(value[f]) # Empty /\ ~error[f])]_vars

\* a capture has just delivered its artifact and thereby enabled the submit
\* button
C8_Witness ==
    /\ calls.onImageCaptured # << >>
    /\ calls.onImageCaptured[1] \in Images
    /\ capturedImageData = calls.onImageCaptured[1]
    /\ isCaptured
    /\ ~submitDisabled

(* -------------------------------- C9 ---------------------------------- *)
\* C9: a retake in the Captured state moves the controller back to Active on
\* the same stream and makes FormController observe absence exactly once:
\* right afterwards FormController holds no image and the submit button is
\* disabled.
C9_RetakeClearsArtifact ==
    [][(isCaptured /\ RetakePhoto) =>
          /\ ~isCaptured'
          /\ stream' = stream
          /\ stream' # Null
          /\ controls' = "capture"
          /\ capturedImageHidden'
          /\ calls'.onImageCaptured = <<Null>>
          /\ capturedImageData' = Null
          /\ submitDisabled']_vars

\* a retake has just withdrawn the image from a form whose fields are all
\* filled and unmarked, so the retake is what disabled the button
C9_Witness ==
    /\ calls.onImageCaptured = <<Null>>
    /\ \A f \in Fields : Trim(value[f]) # Empty /\ ~error[f]
    /\ stream # Null
    /\ submitDisabled

(* -------------------------------- C10 --------------------------------- *)
\* C10: every reset of the CaptureController, on every path that triggers
\* it, releases the held stream, leaves the controller not captured, and has
\* FormController observe absence, so that FormController holds no image
\* afterwards.
C10_ResetClearsArtifactDownstream ==
    [][ResetStep =>
          /\ stream' = Null
          /\ stream # Null => (stream \notin live' /\ stops'[stream] = stops[stream] + 1)
          /\ ~isCaptured'
          /\ capturedImageData' = Null]_vars

(* -------------------------------- C11 --------------------------------- *)
\* what the reset flow leaves behind: fields and marks cleared, submit
\* disabled, no image, the controller Idle and the stream it held stopped
AfterResetFlow ==
    /\ \A f \in Fields : value'[f] = Empty /\ ~error'[f] /\ errorText'[f] = ""
    /\ submitDisabled'
    /\ capturedImageData' = Null
    /\ stream' = Null
    /\ ~isCaptured'
    /\ controls' = "start"
    /\ videoSrcObject' = Null
    /\ stream # Null => (stream \notin live' /\ stops'[stream] = stops[stream] + 1)

\* C11: from any reachable state the form reset flow clears every field value
\* and error mark, disables the submit button, drops FormController's image
\* and leaves the CaptureController Idle with its stream released; the
\* new-submission flow does the same and leaves the success modal hidden.
C11_ResetFlowClearsEverything ==
    [][/\ HandleFormReset => AfterResetFlow
       /\ HandleNewSubmission => (AfterResetFlow /\ successModalHidden')]_vars

\* the form is blank, unmarked and disabled and the controller Idle, although
\* a filled form with a photo was submitted and a stream was acquired before:
\* the state a reset leaves
C11_Witness ==
    /\ \A f \in Fields : value[f] = Empty /\ ~error[f]
    /\ submitDisabled
    /\ capturedImageData = Null
    /\ stream = Null /\ controls = "start" /\ live = {}
    /\ \E s \in StreamIds : stops[s] = 1
    /\ \E data \in BagToSet(inflight) : data.imageData # Null

(* -------------------------------- C12 --------------------------------- *)
\* C12: when checkCameraSupport found no capture API, the start button stays
\* disabled through every later event, form reset included, and the
\* CaptureController never leaves Idle: no acquisition is requested, no stream
\* is ever acquired and no artifact is ever produced.
C12_UnsupportedStaysIdle ==
    /\ [](startDisabled =>
            /\ stream = Null /\ ~isCaptured /\ controls = "start"
            /\ pending = 0 /\ Issued = {}
            /\ capturedImageData = Null)
    /\ [][startDisabled => startDisabled']_vars

\* without the capture API, the form has been filled in and a field marked
C12_Witness ==
    /\ startDisabled
    /\ \A f \in Fields : value[f] # Empty
    /\ \E f \in Fields : error[f]

(* -------------------------------- C13 --------------------------------- *)
\* a step that runs validateField on field f: its blur listener, or its input
\* listener when the field is marked
ValidationPass(f) ==
    \/ Blur(f)
    \/ error[f] /\ Input(f, value'[f])

\* C13: validating a required field whose value is empty or only whitespace
\* marks it invalid with the message "This field is required", whatever the
\* field's type: the required check comes first and its reason is the one
\* shown.
C13_RequiredMessageFirst ==
    [][\A f \in Fields :
          (ValidationPass(f) /\ Trim(value'[f]) = Empty) =>
             /\ error'[f]
             /\ errorText'[f] = RequiredMessage]_vars

(* -------------------------------- C14 --------------------------------- *)
\* the phone rule as the prose states it: only digits, spaces, hyphens,
\* parentheses and the plus sign, and at least ten digits among them
PhoneRule(v) ==
    /\ \A k \in 1..Len(v) : v[k] \in Digit \cup {" ", "-", "(", ")", "+"}
    /\ Cardinality({k \in 1..Len(v) : v[k] \in Digit}) >= 10

C15_LoadingDisablesSubmit ==
    /\ (~loadingHidden) => submitDisabled
    /\ BagCardinality(inflight) <= 1

(* -------------------------------- C16 --------------------------------- *)
\* C16: after every validation pass of a field, by blur or by input, the
\* submit button has been recomputed before the next event: it is enabled
\* exactly if every field is filled and unmarked, as that pass left the
\* marks, and an image is held.
C16_RecomputeAfterValidation ==
    [][\A f \in Fields :
          ValidationPass(f) =>
             submitDisabled' = ~CheckFormValidity(value', error', capturedImageData')]_vars

(* -------------------------------- C17 --------------------------------- *)
\* the controller holds no stream and shows the start button
Idle == stream = Null /\ ~isCaptured /\ controls = "start"

\* C17: when the acquisition of a start request fails, whatever the error,
\* the controller stays as it was, so an Idle controller remains Idle with no
\* stream and no capture controls; an error status is reported; the failed
\* request is not repeated, and an acquisition is requested only by a start
\* request.
C17_StartFailureStaysIdle ==
    [][/\ \A name \in ErrorNames :
             StartCameraRejected(name) =>
                /\ Idle => Idle'
                /\ stream' = stream /\ live' = live
                /\ controls' = controls /\ isCaptured' = isCaptured
                /\ Len(calls'.statusError) = 1
                /\ pending' = pending - 1
       /\ pending' > pending => StartCamera(MaxStreams + SubmitStreams)]_vars

\* a busy device has just been reported to an Idle controller, and no
\* acquisition is under way
C17_Witness ==
    /\ calls.statusError = <<"Camera is already in use by another application.">>
    /\ Idle
    /\ pending = 0

(* -------------------------------- C18 --------------------------------- *)
\* C18: a retake leaves the camera stream alone: the controller holds the
\* same stream afterwards, still live and still the video's source, nothing
\* was stopped and no acquisition was requested.
C18_RetakeKeepsStream ==
    [][RetakePhoto =>
          /\ stream # Null
          /\ stream' = stream
          /\ videoSrcObject' = videoSrcObject
          /\ live' = live /\ stream \in live'
          /\ stops' = stops
          /\ pending' = pending]_vars

\* a retake has just run and the controller's stream is live, never stopped,
\* and feeds the video
C18_Witness ==
    /\ calls.onImageCaptured = <<Null>>
    /\ controls = "capture" /\ ~isCaptured
    /\ stream # Null /\ stream \in live /\ stops[stream] = 0
    /\ videoSrcObject = stream

(* -------------------------------- C19 --------------------------------- *)
\* C19: in every reachable state FormController holds an image if and only
\* if the CaptureController is in the Captured state.
C19_ControllersAgreeOnImage == (capturedImageData # Null) <=> isCaptured

(* -------------------------------- C20 --------------------------------- *)
\* C20: in every reachable state an enabled submit button means that
\* FormController holds an image, and every step that clears the image leaves
\* the button disabled.
C20_EnabledImpliesImage ==
    /\ []((~submitDisabled) => capturedImageData # Null)
    /\ [][(capturedImageData # Null /\ capturedImageData' = Null) =>
             submitDisabled']_vars

\* the button is enabled and an image held while a submission is awaited
C20_Witness ==
    /\ ~submitDisabled
    /\ capturedImageData \in Images
    /\ ~loadingHidden

====
